---- MODULE Spec2Model ----
(***************************************************************************)
(* Model of the Modbus RTU master in modbus_rtu_lib.py (class Modbus).     *)
(*                                                                         *)
(* One public read operation runs at a time (the class is synchronous).    *)
(* Every private method called by _return_bytes is one action, so that the *)
(* order of the calls on the serial port is visible in the log `calls`.    *)
(* Byte strings are sequences over 0..255.  Python integers are unbounded; *)
(* decoded integers are therefore kept in sign-magnitude form with the     *)
(* magnitude as big-endian base-256 digits, and bit lists are computed on  *)
(* the bits of the bytes, so that no value leaves the range of TLC.        *)
(* The serial port is assumed not to raise from read() or write().         *)
(***************************************************************************)
EXTENDS Integers, Sequences, FiniteSets, TLC

VARIABLES
    echo,            \* self.echo, fixed at construction
    pc,              \* position inside the running public operation
    op,              \* name of the public operation that was called
    device_addr, start_reg_addr, amount, format, is_signed,   \* its arguments
    command,         \* function code, a one-byte string
    format_char,     \* struct format character chosen from the format
    regs_amount,     \* number of 16-bit registers requested
    request,         \* the request handed to port.write
    response,        \* what port.read returned
    byte_data,       \* what _return_bytes returned
    result,          \* the list returned by the public operation
    err,             \* the exception that ended the operation, or "none"
    calls            \* calls made on self.port by the running operation

vars == <<echo, pc, op, device_addr, start_reg_addr, amount, format, is_signed,
          command, format_char, regs_amount, request, response, byte_data,
          result, err, calls>>

args == <<op, device_addr, start_reg_addr, amount, format, is_signed,
          command, format_char, regs_amount>>

-----------------------------------------------------------------------------
(* Bounds of the model and the inputs it enumerates                         *)

\* longest payload a modelled device puts in a response frame
MaxPayload == 8

\* device addresses tried: below, inside and above 0..255
DeviceAddrs == {-1, 0, 1, 255, 256}

\* start registers tried (16-bit)
StartRegs == {0, 4660}

\* value counts tried; 16384 'long long' values need 65536 registers
Amounts == {0, 1, 2, 16384}

IntFormats == {"short", "long", "long long", "int"}

FloatFormats == {"float", "double", "half"}

\* first byte and following bytes of a modelled payload
HeadBytes == {0, 1, 128, 255}

FillBytes == {0, 255}

\* a local variable that has not been assigned yet
Unbound == <<-1>>

-----------------------------------------------------------------------------
(* Python helpers                                                           *)

Min(a, b) == IF a < b THEN a ELSE b

Max(a, b) == IF a > b THEN a ELSE b

\* s[lo:hi] of Python on a 0-based string; a negative index counts from the end
PySlice(s, lo, hi) ==
    LET n  == Len(s)
        l0 == IF lo < 0 THEN Max(n + lo, 0) ELSE Min(lo, n)
        h0 == IF hi < 0 THEN Max(n + hi, 0) ELSE Min(hi, n)
    IN  IF h0 <= l0 THEN <<>> ELSE [i \in 1..(h0 - l0) |-> s[l0 + i]]

\* s[lo:] of Python
PyTail(s, lo) == PySlice(s, lo, Len(s))

\* struct.pack('>H', v): two bytes, high byte first; defined for 0..65535
PackOk(v) == v >= 0 /\ v <= 65535

PackH(v) == <<v \div 256, v % 256>>

\* bytes(n) of Python for an integer n: n zero bytes, ValueError when n < 0
BytesOk(n) == n >= 0

BytesOfInt(n) == [i \in 1..n |-> 0]

-----------------------------------------------------------------------------
(* CRC-16 engine (module crc16)                                             *)

RECURSIVE BitXor(_, _)
BitXor(a, b) ==
    IF a = 0 THEN b
    ELSE IF b = 0 THEN a
    ELSE ((a + b) % 2) + 2 * BitXor(a \div 2, b \div 2)

RECURSIVE CrcShift(_, _)
CrcShift(crc, k) ==
    IF k = 0 THEN crc
    ELSE CrcShift(IF crc % 2 = 1 THEN BitXor(crc \div 2, 40961) ELSE crc \div 2, k - 1)

\* the eight shift steps of one input byte, for a register whose high byte is 0
CrcTable == [b \in 0..255 |-> CrcShift(b, 8)]

RECURSIVE CrcReg(_, _)
\* register after n bytes, starting from 0xFFFF.  The shift steps are linear
\* over XOR, so the eight steps on (crc XOR byte) are taken on the low byte
\* alone and the high byte, moved down by eight bits, is XORed in afterwards.
CrcReg(data, n) ==
    IF n = 0 THEN 65535
    ELSE LET c == CrcReg(data, n - 1)
         IN  BitXor(c \div 256, CrcTable[BitXor(c % 256, data[n])])

\* the two CRC bytes, low byte first
crc16(data) == LET c == CrcReg(data, Len(data)) IN <<c % 256, c \div 256>>

-----------------------------------------------------------------------------
(* Register decoder                                                         *)

RECURSIVE ByteBits(_, _)
\* the k low bits of b, most significant first
ByteBits(b, k) == IF k = 0 THEN <<>> ELSE Append(ByteBits(b \div 2, k - 1), b % 2)

RECURSIVE BitsOf(_)
\* all bits of a byte string, most significant first
BitsOf(s) == IF s = <<>> THEN <<>> ELSE ByteBits(Head(s), 8) \o BitsOf(Tail(s))

RECURSIVE StripZeros(_)
StripZeros(b) == IF b # <<>> /\ Head(b) = 0 THEN StripZeros(Tail(b)) ELSE b

\* [int(i) for i in bin(int.from_bytes(byte_data, 'big'))[2:]]
BinDigits(s) == LET b == StripZeros(BitsOf(s)) IN IF b = <<>> THEN <<0>> ELSE b

\* standard size of a struct format character under '>'
CharSize(c) ==
    CASE c \in {"h", "H"} -> 2
      [] c \in {"l", "L", "f"} -> 4
      [] c \in {"q", "Q", "d"} -> 8

\* str.upper() on a format character
Upper(c) ==
    CASE c = "h" -> "H"
      [] c = "l" -> "L"
      [] c = "q" -> "Q"
      [] OTHER -> c

RECURSIVE AddOne(_)
\* big-endian increment, modulo 256^Len(s)
AddOne(s) ==
    IF s = <<>> THEN <<>>
    ELSE LET n == Len(s) IN
         IF s[n] = 255 THEN Append(AddOne(SubSeq(s, 1, n - 1)), 0)
         ELSE Append(SubSeq(s, 1, n - 1), s[n] + 1)

\* magnitude of the negative two's complement number held in the chunk
NegMagnitude(chunk) == AddOne([i \in 1..Len(chunk) |-> 255 - chunk[i]])

\* one integer of struct.unpack: lower case is signed, upper case unsigned
UnpackInt(c, chunk) ==
    IF c \in {"h", "l", "q"} /\ chunk[1] >= 128
    THEN [neg |-> TRUE, mag |-> NegMagnitude(chunk)]
    ELSE [neg |-> FALSE, mag |-> chunk]

RECURSIVE BitsValue(_)
BitsValue(b) == IF b = <<>> THEN 0 ELSE 2 * BitsValue(SubSeq(b, 1, Len(b) - 1)) + b[Len(b)]

\* one IEEE-754 number of struct.unpack: sign, biased exponent, fraction bits
UnpackFloat(c, chunk) ==
    LET b == BitsOf(chunk)
        e == IF c = "f" THEN 8 ELSE 11
    IN  [sign |-> b[1], exp |-> BitsValue(SubSeq(b, 2, e + 1)),
         frac |-> SubSeq(b, e + 2, Len(b))]

UnpackOne(c, chunk) ==
    IF c \in {"f", "d"} THEN UnpackFloat(c, chunk) ELSE UnpackInt(c, chunk)

\* struct.unpack('>' + c*n, data) succeeds only on a buffer of exactly n items
UnpackOk(c, n, data) == Len(data) = n * CharSize(c)

Unpack(c, n, data) ==
    [i \in 1..n |-> UnpackOne(c, SubSeq(data, (i - 1) * CharSize(c) + 1, i * CharSize(c)))]

-----------------------------------------------------------------------------
(* The serial line: what a device may answer                                *)

Payloads ==
    {<<>>} \cup { [i \in 1..n |-> IF i = 1 THEN b0 ELSE b1] :
                    n \in 1..MaxPayload, b0 \in HeadBytes, b1 \in FillBytes }

\* address, function (echoed or exception), byte count (right or zero)
Headers(c, n) == { <<a, f, bc>> : a \in {0, 1}, f \in {c, c + 128}, bc \in {n, 0} }

Corrupt(crc) == <<(crc[1] + 1) % 256, crc[2]>>

FramesFor(c) ==
    UNION { UNION { LET cr == crc16(h \o p) IN {h \o p \o cr, h \o p \o Corrupt(cr)} :
                      h \in Headers(c, Len(p)) } : p \in Payloads }

\* all answers the model knows, per function code
Answers ==
    [c \in {1, 2, 3} |->
        {<<>>, <<255, 255>>, <<0, c>>} \cup {<<b>> : b \in HeadBytes} \cup FramesFor(c)]

\* port.read(max_len) returns at most max_len bytes
Responses(c, max_len) == { r \in Answers[c] : Len(r) <= max_len }

WriteCall(data) == [kind |-> "write", n |-> Len(data), data |-> data]

ReadCall(max_len) == [kind |-> "read", n |-> max_len, data |-> <<>>]

-----------------------------------------------------------------------------
(* The program                                                              *)

Init ==
    /\ echo \in BOOLEAN
    /\ pc = "idle"
    /\ op = "none"
    /\ device_addr = 0
    /\ start_reg_addr = 0
    /\ amount = 0
    /\ format = "none"
    /\ is_signed = FALSE
    /\ command = <<>>
    /\ format_char = "none"
    /\ regs_amount = 0
    /\ request = Unbound
    /\ response = Unbound
    /\ byte_data = Unbound
    /\ result = <<>>
    /\ err = "none"
    /\ calls = <<>>

\* a public operation may be called when none is running
CanCall == pc = "idle"

\* the state a public operation starts from
Enter(o, a, s, n, f, sg, cmd) ==
    /\ op' = o
    /\ device_addr' = a
    /\ start_reg_addr' = s
    /\ amount' = n
    /\ format' = f
    /\ is_signed' = sg
    /\ command' = cmd
    /\ request' = Unbound
    /\ response' = Unbound
    /\ byte_data' = Unbound
    /\ result' = <<>>
    /\ calls' = <<>>
    /\ UNCHANGED echo

read_do_integers ==
    /\ CanCall
    /\ \E a \in DeviceAddrs, s \in StartRegs, n \in Amounts :
          /\ Enter("read_do_integers", a, s, n, "none", FALSE, <<1>>)
          /\ format_char' = "none"
          /\ regs_amount' = n
          /\ err' = "none"
          /\ pc' = "check_device_addr"

read_di_integers ==
    /\ CanCall
    /\ \E a \in DeviceAddrs, s \in StartRegs, n \in Amounts :
          /\ Enter("read_di_integers", a, s, n, "none", FALSE, <<2>>)
          /\ format_char' = "none"
          /\ regs_amount' = n
          /\ err' = "none"
          /\ pc' = "check_device_addr"

read_ao_integers ==
    /\ CanCall
    /\ \E a \in DeviceAddrs, s \in StartRegs, n \in Amounts,
          f \in IntFormats, sg \in BOOLEAN :
          /\ Enter("read_ao_integers", a, s, n, f, sg, <<3>>)
          /\ IF f = "short"
             THEN /\ format_char' = "h"
                  /\ regs_amount' = n
                  /\ err' = "none"
                  /\ pc' = "check_device_addr"
             ELSE IF f = "long"
             THEN /\ format_char' = "l"
                  /\ regs_amount' = n * 2
                  /\ err' = "none"
                  /\ pc' = "check_device_addr"
             ELSE IF f = "long long"
             THEN /\ format_char' = "q"
                  /\ regs_amount' = n * 4
                  /\ err' = "none"
                  /\ pc' = "check_device_addr"
             ELSE /\ format_char' = "none"
                  /\ regs_amount' = 0
                  /\ err' = "InvalidFormat"
                  /\ pc' = "done"

\* variant: an unknown precision falls back to 'float' instead of raising
read_ao_floats_default ==
    /\ CanCall
    /\ \E a \in DeviceAddrs, s \in StartRegs, n \in Amounts, f \in FloatFormats :
          /\ Enter("read_ao_floats", a, s, n, f, FALSE, <<3>>)
          /\ format_char' = IF f = "double" THEN "d" ELSE "f"
          /\ regs_amount' = IF f = "double" THEN n * 4 ELSE n * 2
          /\ err' = "none"
          /\ pc' = "check_device_addr"

read_ao_floats ==
    /\ CanCall
    /\ \E a \in DeviceAddrs, s \in StartRegs, n \in Amounts, f \in FloatFormats :
          /\ Enter("read_ao_floats", a, s, n, f, FALSE, <<3>>)
          /\ IF f = "float"
             THEN /\ format_char' = "f"
                  /\ regs_amount' = n * 2
                  /\ err' = "none"
                  /\ pc' = "check_device_addr"
             ELSE IF f = "double"
             THEN /\ format_char' = "d"
                  /\ regs_amount' = n * 4
                  /\ err' = "none"
                  /\ pc' = "check_device_addr"
             ELSE /\ format_char' = "none"
                  /\ regs_amount' = 0
                  /\ err' = "InvalidFormat"
                  /\ pc' = "done"

\* the condition of the if in _check_device_addr: not 0 >= device_addr <= 255
AddrRejected(a) == ~(0 >= a /\ a <= 255)

check_device_addr ==
    /\ pc = "check_device_addr"
    /\ IF AddrRejected(device_addr)
       THEN err' = "InvalidAddress" /\ pc' = "done"
       ELSE err' = err /\ pc' = "build_request"
    /\ UNCHANGED <<echo, args, request, response, byte_data, result, calls>>

\* lines 96-102: pack the two registers, prepend bytes(device_addr), add the CRC
build_request ==
    /\ pc = "build_request"
    /\ IF ~PackOk(start_reg_addr) \/ ~PackOk(regs_amount)
       THEN err' = "PackError" /\ pc' = "done" /\ request' = request
       ELSE IF ~BytesOk(device_addr)
       THEN err' = "NegativeCount" /\ pc' = "done" /\ request' = request
       ELSE LET request_wo_crc == BytesOfInt(device_addr) \o command
                                    \o PackH(start_reg_addr) \o PackH(regs_amount)
            IN  /\ request' = request_wo_crc \o crc16(request_wo_crc)
                /\ err' = err
                /\ pc' = "port_write"
    /\ UNCHANGED <<echo, args, response, byte_data, result, calls>>

port_write ==
    /\ pc = "port_write"
    /\ calls' = Append(calls, WriteCall(request))
    /\ pc' = "read_echo"
    /\ UNCHANGED <<echo, args, request, response, byte_data, result, err>>

read_echo ==
    /\ pc = "read_echo"
    /\ calls' = IF echo THEN Append(calls, ReadCall(Len(request))) ELSE calls
    /\ pc' = "port_read"
    /\ UNCHANGED <<echo, args, request, response, byte_data, result, err>>

port_read ==
    /\ pc = "port_read"
    /\ calls' = Append(calls, ReadCall(regs_amount * 2 + 5))
    /\ response' \in Responses(command[1], regs_amount * 2 + 5)
    /\ pc' = "check_response"
    /\ UNCHANGED <<echo, args, request, byte_data, result, err>>

\* variant: an empty read is answered by sending the request once more
check_response_retry ==
    /\ pc = "check_response"
    /\ IF Len(response) = 0
       THEN IF Len(calls) < 4
            THEN err' = err /\ pc' = "port_write"
            ELSE err' = "NoResponse" /\ pc' = "done"
       ELSE err' = err /\ pc' = "check_crc"
    /\ UNCHANGED <<echo, args, request, response, byte_data, result, calls>>

check_response ==
    /\ pc = "check_response"
    /\ IF Len(response) = 0
       THEN err' = "NoResponse" /\ pc' = "done"
       ELSE err' = err /\ pc' = "check_crc"
    /\ UNCHANGED <<echo, args, request, response, byte_data, result, calls>>

\* variant: the CRC comparison is made but a mismatch is not raised
check_crc_lenient ==
    /\ pc = "check_crc"
    /\ err' = err
    /\ pc' = "check_command"
    /\ UNCHANGED <<echo, args, request, response, byte_data, result, calls>>

check_crc ==
    /\ pc = "check_crc"
    /\ IF crc16(PySlice(response, 0, -2)) # PyTail(response, -2)
       THEN err' = "CrcError" /\ pc' = "done"
       ELSE err' = err /\ pc' = "check_command"
    /\ UNCHANGED <<echo, args, request, response, byte_data, result, calls>>

check_command ==
    /\ pc = "check_command"
    /\ IF PySlice(response, 1, 2) # command
       THEN err' = "FunctionError" /\ pc' = "done"
       ELSE err' = err /\ pc' = "return_bytes"
    /\ UNCHANGED <<echo, args, request, response, byte_data, result, calls>>

\* variant: the slice starts at the byte-count byte
PayloadFromByteCount(r) == PySlice(r, 2, -2)

\* line 113
Payload(r) == PySlice(r, 3, -2)

return_bytes ==
    /\ pc = "return_bytes"
    /\ byte_data' = Payload(response)
    /\ pc' = "decode"
    /\ UNCHANGED <<echo, args, request, response, result, err, calls>>

\* lines 120 and 129
decode_bits ==
    /\ pc = "decode"
    /\ op \in {"read_do_integers", "read_di_integers"}
    /\ result' = BinDigits(byte_data)
    /\ pc' = "done"
    /\ UNCHANGED <<echo, args, request, response, byte_data, err, calls>>

\* lines 152-156 and 176; the result of format_char.upper() is dropped
decode_unpack ==
    /\ pc = "decode"
    /\ op \in {"read_ao_integers", "read_ao_floats"}
    /\ LET dropped == IF op = "read_ao_integers" /\ ~is_signed
                      THEN Upper(format_char) ELSE format_char
       IN  IF UnpackOk(format_char, amount, byte_data)
           THEN result' = Unpack(format_char, amount, byte_data) /\ err' = err
           ELSE result' = result /\ err' = "UnpackError"
    /\ pc' = "done"
    /\ UNCHANGED <<echo, args, request, response, byte_data, calls>>

\* the operation returns its list or raises to its caller; its locals are gone
leave ==
    /\ pc = "done"
    /\ pc' = "idle"
    /\ op' = "none"
    /\ device_addr' = 0
    /\ start_reg_addr' = 0
    /\ amount' = 0
    /\ format' = "none"
    /\ is_signed' = FALSE
    /\ command' = <<>>
    /\ format_char' = "none"
    /\ regs_amount' = 0
    /\ request' = Unbound
    /\ response' = Unbound
    /\ byte_data' = Unbound
    /\ result' = <<>>
    /\ err' = "none"
    /\ calls' = <<>>
    /\ UNCHANGED echo

Next ==
    \/ read_do_integers
    \/ read_di_integers
    \/ read_ao_integers
    \/ read_ao_floats
    \/ check_device_addr
    \/ build_request
    \/ port_write
    \/ read_echo
    \/ port_read
    \/ check_response
    \/ check_crc
    \/ check_command
    \/ return_bytes
    \/ decode_bits
    \/ decode_unpack
    \/ leave

Spec == Init /\ [][Next]_vars

-----------------------------------------------------------------------------
(* Vocabulary of the properties                                             *)

\* the response read has been made
Received == response # Unbound

\* the operation has ended by raising one of the three response errors
ResponseErrors == {"NoResponse", "CrcError", "FunctionError"}

\* the operation got as far as _return_bytes
InReturnBytes == op # "none" /\ err # "InvalidFormat"

\* the documented range of a device address
AddrInRange(a) == a >= 0 /\ a <= 255

\* the trailing two bytes are the CRC of the bytes before them
CrcMatches(r) == PyTail(r, -2) = crc16(PySlice(r, 0, -2))

\* the byte at offset 1 is the function code of the request
EchoesFunction(r) == Len(r) >= 2 /\ r[2] = command[1]

\* one write, the echo read when echo is on, one response read
ExchangeCalls ==
    <<WriteCall(request)>>
      \o (IF echo THEN <<ReadCall(Len(request))>> ELSE <<>>)
      \o <<ReadCall(regs_amount * 2 + 5)>>

WritesIn(log) == { i \in 1..Len(log) : log[i].kind = "write" }

\* the i-th item of the payload, as wide as the format character says
Chunk(i) ==
    SubSeq(byte_data, (i - 1) * CharSize(format_char) + 1, i * CharSize(format_char))

-----------------------------------------------------------------------------
(* Properties                                                               *)

\* C1: for every device_addr in 0..255 (16-bit start register and register
\* count) the address check of _return_bytes passes: the operation does not
\* end with InvalidAddress and the request is written to the port.
C1_EveryAddressInRangeAccepted ==
    (/\ pc = "done"
     /\ InReturnBytes
     /\ AddrInRange(device_addr)
     /\ PackOk(start_reg_addr)
     /\ PackOk(regs_amount))
    => (err # "InvalidAddress" /\ WritesIn(calls) # {})

\* C2: for every device_addr outside 0..255 the operation ends with the
\* InvalidAddress error of the address check, and the port has seen no call.
C2_OutOfRangeAddressRejected ==
    (InReturnBytes /\ ~AddrInRange(device_addr))
    => (/\ calls = <<>>
        /\ pc = "done" => err = "InvalidAddress")

\* C3: every request written to the port is 8 bytes: the device address, the
\* function code, the start register and the register count high byte first,
\* and the CRC of those six bytes.
C3_RequestLayout ==
    \A i \in WritesIn(calls) :
        LET d == calls[i].data IN
        /\ Len(d) = 8
        /\ d[1] = device_addr
        /\ d[2] = command[1]
        /\ d[3] * 256 + d[4] = start_reg_addr
        /\ d[5] * 256 + d[6] = regs_amount
        /\ <<d[7], d[8]>> = crc16(SubSeq(d, 1, 6))

\* C4: read_ao_integers honours is_signed: with is_signed false every chunk is
\* returned as the unsigned number it spells (never negative, a chunk with the
\* top bit set included); with is_signed true it is read as two's complement.
C4_SignednessHonoured ==
    (pc = "done" /\ err = "none" /\ op = "read_ao_integers")
    => \A i \in 1..Len(result) :
          IF is_signed
          THEN /\ result[i].neg = (Chunk(i)[1] >= 128)
               /\ ~result[i].neg => result[i].mag = Chunk(i)
               /\ result[i].neg => NegMagnitude(result[i].mag) = Chunk(i)
          ELSE /\ ~result[i].neg
               /\ result[i].mag = Chunk(i)

\* C5: whenever a public read operation returns, the list it returns has as
\* many items as were asked for.
C5_ResultLength ==
    (pc = "done" /\ err = "none" /\ op # "none") => Len(result) = amount

\* C6: a non-empty response whose last two bytes are not the CRC of the bytes
\* before them ends the operation with CrcError, whatever its function byte;
\* FunctionError is raised only for a response whose CRC is right.
C6_CrcBeforeFunction ==
    /\ (pc = "done" /\ Received /\ response # <<>> /\ ~CrcMatches(response))
          => err = "CrcError"
    /\ err = "FunctionError" => (Received /\ CrcMatches(response))
    /\ err = "CrcError" => (Received /\ response # <<>>)

\* C6 happens: a response with a wrong CRC and a foreign function byte was
\* reported as a CRC error.
C6_Witness ==
    /\ pc = "done"
    /\ err = "CrcError"
    /\ Len(response) > 5
    /\ response[2] # command[1]

\* C7: a non-empty response with the right CRC and the function code of the
\* request passes the three checks, and _return_bytes returns its bytes from
\* offset 3 up to the CRC, one for one.
C7_PayloadReturned ==
    /\ (pc = "done" /\ Received /\ response # <<>>
          /\ CrcMatches(response) /\ EchoesFunction(response))
          => (err \notin ResponseErrors /\ byte_data # Unbound)
    /\ byte_data # Unbound
          => /\ Len(byte_data) = Max(Len(response) - 5, 0)
             /\ \A i \in 1..Len(byte_data) : byte_data[i] = response[i + 3]

\* C7 happens: a payload came back from a frame whose address byte and
\* byte-count byte are not the expected ones.
C7_Witness ==
    /\ pc = "done"
    /\ byte_data # Unbound
    /\ Len(byte_data) >= 2
    /\ byte_data[1] # byte_data[2]
    /\ response[1] # device_addr
    /\ response[3] # Len(byte_data)

\* C8: read_ao_integers with a format other than short, long, long long and
\* read_ao_floats with a precision other than float, double end with
\* InvalidFormat and make no call on the port.
C8_InvalidFormatNoIo ==
    (\/ op = "read_ao_integers" /\ format \notin {"short", "long", "long long"}
     \/ op = "read_ao_floats" /\ format \notin {"float", "double"})
    => (pc = "done" /\ err = "InvalidFormat" /\ calls = <<>> /\ result = <<>>)

\* C8 happens: an unknown precision was refused for an address the check
\* lets through, with echo on.
C8_Witness ==
    /\ pc = "done"
    /\ err = "InvalidFormat"
    /\ op = "read_ao_floats"
    /\ device_addr = 0
    /\ echo

\* C9: an empty response read ends the operation with NoResponse; after
\* NoResponse, CrcError or FunctionError the operation is over, has returned
\* nothing, and the port has seen exactly the one exchange and nothing more.
C9_SingleShot ==
    /\ (Received /\ response = <<>> /\ pc # "check_response") => err = "NoResponse"
    /\ err = "NoResponse" => (Received /\ response = <<>>)
    /\ err \in ResponseErrors
          => (pc = "done" /\ result = <<>> /\ byte_data = Unbound
              /\ calls = ExchangeCalls)

\* C9 happens: the read after the echo read brought nothing.
C9_Witness ==
    /\ pc = "done"
    /\ err = "NoResponse"
    /\ echo
    /\ Len(calls) = 3

\* C10: every public read operation whose arguments are valid makes exactly
\* these calls on the port, in this order: one write of the request, one read
\* of len(request) bytes if and only if echo is on, one read of at most
\* regs_amount*2+5 bytes.
C10_ExchangeOrder ==
    (/\ pc = "done"
     /\ InReturnBytes
     /\ AddrInRange(device_addr)
     /\ PackOk(start_reg_addr)
     /\ PackOk(regs_amount))
    => calls = ExchangeCalls

====
